---- MODULE Spec2Model ----
(***************************************************************************)
(* Model of the Watchtower lifecycle orchestrator (src/unnamed/part_002).  *)
(* Node's event loop is modelled by a FIFO queue of promise reactions      *)
(* (mq): application calls may happen at any moment, promise reactions run *)
(* one at a time in FIFO order, timers and signals fire only when no       *)
(* reaction is queued.  Durations are abstracted: an armed timer may fire  *)
(* at any moment at which the event loop is free.                          *)
(***************************************************************************)
EXTENDS Naturals, Integers, Sequences, FiniteSets

MaxStartupTasks == 2
MaxShutdownTasks == 2
MaxBeacons == 2
MaxShutdownCalls == 2
MaxDie == 2
MaxHealthCheckHandlers == 2
MaxConnections == 2
MaxInFlight == 2
MaxCloseCalls == 2

VARIABLES
  configuration,    \* which of the optional timers are enabled (value >= 0)
  errorListener,    \* whether an 'error' listener is subscribed
  proc,             \* "running", "exited" (terminate -> process.exit(1)), "crashed"
  _isReady, _isHealthy, _isShuttingDown,
  deferredReady,    \* "pending" | "resolved" | "rejected"
  readyWaiters,     \* shutdown calls suspended in `await this.deferredReady`
  startupTasks,     \* the startupTasks array (task ids)
  taskSt,           \* per startup task promise: "unqueued" | "pending" | "fulfilled" | "rejected" | "caught"
  mq,               \* queued promise reactions
  callPc,           \* per shutdown() call: position in the async function
  delayTimers,      \* armed shutdown-delay timers, in arming order
  beacons,          \* the beacons array (beacon ids)
  dieCount,         \* per beacon: -1 not created, else number of die() calls
  awaiting,         \* awaitBeacons: "no" | "listening" | "resolved"
  shutdownTasks,    \* number of registered cleanup tasks
  runSt,            \* per cleanup task: "idle" | "pending" | "fulfilled" | "rejected" | "threw"
  allSt,            \* Promise.all of the cleanup phase: "none" | "pending" | "fulfilled" | "rejected"
  timers,           \* set of armed deadline timers
  fired,            \* set of deadline timers that have fired
  events,           \* emitted events: counters of 'ready' / 'shutdown' / 'close', and
                    \* log, the emissions in order ('error' is recorded in errors)
  errors,           \* set of faults emitted as 'error'
  healthCheckHandlers,  \* number of registered health-check handlers
  probeSt,          \* per handler, in the running evaluation: "idle" | "pending" |
                    \* "true" | "false" | "rejected" | "threw"
  evalPc,           \* isHealthy(): "idle" | "probing" | "queued" | "returned"
  evalResult,       \* what the last isHealthy() gave: "none" | "true" | "false" | "threw"
  readyCalled,      \* ready() has been called
  invocations,      \* per cleanup task: number of times it has been invoked
  \* HttpServerManager (src/src/HttpServerManager.ts)
  secure,           \* the managed server is an https.Server
  listening,        \* the server accepts connections (server.close() not yet called)
  isServerClosing,
  socketSt,         \* per socket: "new" | "open" | "destroyed" (destroy() called, 'close'
                    \* not yet emitted) | "closed"
  isIdle,           \* per socket: the [isIdle] flag of request.socket
  inFlight,         \* per socket: requests received whose response has not finished
  closePc,          \* per close() call: "idle" | "waiting" | "waitingErr" | "resolved" | "rejected"
  closeActiveConnectionsTimeout  \* per close() call: "none" | "armed" | "fired" | "cleared"

vars == <<configuration, errorListener, proc, _isReady, _isHealthy, _isShuttingDown,
          deferredReady, readyWaiters, startupTasks, taskSt, mq, callPc, delayTimers,
          beacons, dieCount, awaiting, shutdownTasks, runSt, allSt, timers, fired,
          events, errors, healthCheckHandlers, probeSt, evalPc, evalResult,
          readyCalled, invocations,
          secure, listening, isServerClosing, socketSt, isIdle, inFlight, closePc,
          closeActiveConnectionsTimeout>>

Tasks == 1..MaxStartupTasks
Cleanups == 1..MaxShutdownTasks
BeaconIds == 1..MaxBeacons
Calls == 1..MaxShutdownCalls
Probes == 1..MaxHealthCheckHandlers
Sockets == 1..MaxConnections
CloseCalls == 1..MaxCloseCalls

(* Array helpers with JavaScript semantics *)
IndexOf(s, x) ==
  IF \E i \in 1..Len(s) : s[i] = x
  THEN (CHOOSE i \in 1..Len(s) : s[i] = x /\ \A j \in 1..(i-1) : s[j] # x) - 1
  ELSE -1

\* s.splice(index, 1): a negative index counts from the end of the array
Splice(s, index) ==
  LET start == IF index < 0
               THEN (IF Len(s) + index < 0 THEN 0 ELSE Len(s) + index)
               ELSE (IF index > Len(s) THEN Len(s) ELSE index)
  IN  IF start >= Len(s) THEN s
      ELSE [i \in 1..(Len(s)-1) |-> IF i <= start THEN s[i] ELSE s[i+1]]

Reaction(k, id) == [k |-> k, id |-> id]

\* this.emit(e, v) as seen by a listener of every event; a run of consecutive
\* 'healthStateChange' emissions is recorded by its last one
Event(e, v) == [e |-> e, v |-> v]
Emit(log, ev) ==
  IF Len(log) > 0 /\ log[Len(log)].e = "healthStateChange" /\ ev.e = "healthStateChange"
  THEN [log EXCEPT ![Len(log)] = ev]
  ELSE Append(log, ev)

IgnoredNever(ready, down) == FALSE

\* signalHealthy() / signalUnhealthy(): `if (!this.isReady() || this.isShuttingDown()) return`
Ignored(ready, down) == ~ready \/ down

RECURSIVE Resumes(_)
Resumes(ws) == IF ws = <<>> THEN <<>>
               ELSE <<Reaction("shutdownResume", Head(ws))>> \o Resumes(Tail(ws))

ResolveReactionsWaitersFirst ==
  IF deferredReady = "pending"
  THEN Resumes(readyWaiters) \o <<Reaction("readyThen", 0)>>
  ELSE <<>>

ResolveReactionsAlways == <<Reaction("readyThen", 0)>> \o Resumes(readyWaiters)

\* this.resolveReady(): settles deferredReady once; queues the constructor's
\* then-handler followed by the suspended shutdown() calls
ResolvedGate == IF deferredReady = "pending" THEN "resolved" ELSE deferredReady
ResolveReactions ==
  IF deferredReady = "pending"
  THEN <<Reaction("readyThen", 0)>> \o Resumes(readyWaiters)
  ELSE <<>>

\* this.rejectReady(err)
RejectedGate == IF deferredReady = "pending" THEN "rejected" ELSE deferredReady
RejectReactions ==
  IF deferredReady = "pending"
  THEN <<Reaction("readyPass", 0)>> \o Resumes(readyWaiters)
  ELSE <<>>

Init ==
  /\ configuration \in [shutdownDelayMs : BOOLEAN, shutdownTimeoutMs : BOOLEAN,
                        shutdownTasksTimeoutMs : BOOLEAN, healthCheckTimeoutMs : BOOLEAN]
  /\ errorListener \in BOOLEAN
  /\ proc = "running"
  /\ _isReady = FALSE /\ _isHealthy = FALSE /\ _isShuttingDown = FALSE
  /\ deferredReady = "pending"
  /\ readyWaiters = <<>>
  /\ startupTasks = <<>>
  /\ taskSt = [t \in Tasks |-> "unqueued"]
  /\ mq = <<>>
  /\ callPc = [c \in Calls |-> "idle"]
  /\ delayTimers = <<>>
  /\ beacons = <<>>
  /\ dieCount = [b \in BeaconIds |-> -1]
  /\ awaiting = "no"
  /\ shutdownTasks = 0
  /\ runSt = [t \in Cleanups |-> "idle"]
  /\ allSt = "none"
  /\ timers = {}
  /\ fired = {}
  /\ events = [ready |-> 0, shutdown |-> 0, close |-> 0, log |-> <<>>]
  /\ errors = {}
  /\ healthCheckHandlers = 0
  /\ probeSt = [h \in Probes |-> "idle"]
  /\ evalPc = "idle"
  /\ evalResult = "none"
  /\ readyCalled = FALSE
  /\ invocations = [t \in Cleanups |-> 0]
  /\ secure \in BOOLEAN
  /\ listening = TRUE
  /\ isServerClosing = FALSE
  /\ socketSt = [s \in Sockets |-> "new"]
  /\ isIdle = [s \in Sockets |-> FALSE]
  /\ inFlight = [s \in Sockets |-> 0]
  /\ closePc = [k \in CloseCalls |-> "idle"]
  /\ closeActiveConnectionsTimeout = [k \in CloseCalls |-> "none"]

Running == proc = "running"
LoopFree == mq = <<>>      \* timers and signals run only between macrotasks

cfgVars == <<configuration, errorListener>>
serverVars == <<secure, listening, isServerClosing, socketSt, isIdle, inFlight, closePc,
                closeActiveConnectionsTimeout>>
watchtowerVars == <<configuration, errorListener, proc, _isReady, _isHealthy, _isShuttingDown,
                    deferredReady, readyWaiters, startupTasks, taskSt, mq, callPc, delayTimers,
                    beacons, dieCount, awaiting, shutdownTasks, runSt, allSt, timers, fired,
                    events, errors, healthCheckHandlers, probeSt, evalPc, evalResult,
                    readyCalled, invocations>>
flagVars == <<_isReady, _isHealthy, _isShuttingDown>>
gateVars == <<deferredReady, readyWaiters>>
beaconVars == <<beacons, dieCount, awaiting>>
cleanupVars == <<shutdownTasks, runSt, allSt>>
timerVars == <<timers, fired>>
healthVars == <<healthCheckHandlers, probeSt, evalPc, evalResult>>

\* An unhandled promise rejection: terminates the process on current Node
\* releases, is only warned about on the older ones the package admits
Unhandled == proc' \in {"running", "crashed"}

(***************************************************************************)
(* Readiness gate                                                          *)
(***************************************************************************)

\* queueStartupTask(startupTask), the promise being in state st when queued
QueueStartupTask(t, st) ==
  /\ Running
  /\ taskSt[t] = "unqueued"
  /\ \A u \in Tasks : u < t => taskSt[u] # "unqueued"
  /\ ~_isReady                          \* otherwise throws, nothing changes
  /\ startupTasks' = Append(startupTasks, t)
  /\ taskSt' = [taskSt EXCEPT ![t] = st]
  /\ mq' = CASE st = "fulfilled" -> Append(mq, Reaction("startupThen", t))
             [] st = "rejected"  -> Append(mq, Reaction("startupPass", t))
             [] OTHER            -> mq
  /\ UNCHANGED <<healthVars, cfgVars, serverVars, proc, flagVars, gateVars, callPc, delayTimers, beaconVars,
                 cleanupVars, timerVars, events, errors, readyCalled, invocations>>

\* a queued, pending startup task settles
SettleStartupTask(t, ok) ==
  /\ Running
  /\ taskSt[t] = "pending"
  /\ taskSt' = [taskSt EXCEPT ![t] = IF ok THEN "fulfilled" ELSE "rejected"]
  /\ mq' = Append(mq, Reaction(IF ok THEN "startupThen" ELSE "startupPass", t))
  /\ UNCHANGED <<healthVars, cfgVars, serverVars, proc, flagVars, gateVars, startupTasks, callPc, delayTimers,
                 beaconVars, cleanupVars, timerVars, events, errors, readyCalled, invocations>>

\* startupTask.then(() => { splice; if (!isReady && length <= 0) resolveReady() })
StartupThen ==
  /\ Running /\ mq # <<>> /\ Head(mq).k = "startupThen"
  /\ LET t == Head(mq).id
         left == Splice(startupTasks, IndexOf(startupTasks, t))
         resolve == ~_isReady /\ Len(left) <= 0
     IN /\ startupTasks' = left
        /\ deferredReady' = IF resolve THEN ResolvedGate ELSE deferredReady
        /\ readyWaiters' = IF resolve THEN <<>> ELSE readyWaiters
        /\ mq' = Tail(mq) \o (IF resolve THEN ResolveReactions ELSE <<>>)
  /\ UNCHANGED <<healthVars, cfgVars, serverVars, proc, flagVars, taskSt, callPc, delayTimers, beaconVars,
                 cleanupVars, timerVars, events, errors, readyCalled, invocations>>

\* a rejection passes through .then(...) before it reaches .catch(...)
StartupPass ==
  /\ Running /\ mq # <<>> /\ Head(mq).k = "startupPass"
  /\ mq' = Append(Tail(mq), Reaction("startupCatch", Head(mq).id))
  /\ UNCHANGED <<healthVars, cfgVars, serverVars, proc, flagVars, gateVars, startupTasks, taskSt, callPc,
                 delayTimers, beaconVars, cleanupVars, timerVars, events, errors,
                 readyCalled, invocations>>

\* .catch((err) => { emit('error', startupTaskError); rejectReady(startupTaskError) })
\* emit('error') throws when no 'error' listener is subscribed
StartupCatch ==
  /\ Running /\ mq # <<>> /\ Head(mq).k = "startupCatch"
  /\ taskSt' = [taskSt EXCEPT ![Head(mq).id] = "caught"]
  /\ IF errorListener
     THEN /\ errors' = errors \cup {"startup task failed"}
          /\ deferredReady' = RejectedGate
          /\ readyWaiters' = IF deferredReady = "pending" THEN <<>> ELSE readyWaiters
          /\ mq' = Tail(mq) \o RejectReactions
          /\ proc' = proc
     ELSE /\ Unhandled
          /\ mq' = Tail(mq)
          /\ UNCHANGED <<errors, gateVars>>
  /\ UNCHANGED <<healthVars, cfgVars, serverVars, flagVars, startupTasks, callPc, delayTimers,
                 beaconVars, cleanupVars, timerVars, events, readyCalled, invocations>>

\* ready()
Ready ==
  /\ Running
  /\ readyCalled' = TRUE
  /\ LET resolve == ~(_isReady \/ _isShuttingDown) /\ Len(startupTasks) <= 0
     IN /\ deferredReady' = IF resolve THEN ResolvedGate ELSE deferredReady
        /\ readyWaiters' = IF resolve THEN <<>> ELSE readyWaiters
        /\ mq' = mq \o (IF resolve THEN ResolveReactions ELSE <<>>)
  /\ UNCHANGED <<healthVars, cfgVars, serverVars, proc, flagVars, startupTasks, taskSt, callPc, delayTimers,
                 beaconVars, cleanupVars, timerVars, events, errors, invocations>>

\* constructor: deferredReady.then(() => { _isReady = true; emit('ready'); signalHealthy() })
ReadyThen ==
  /\ Running /\ mq # <<>> /\ Head(mq).k = "readyThen"
  /\ mq' = Tail(mq)
  /\ _isReady' = TRUE
  /\ events' = [events EXCEPT !.ready = @ + 1,
                               !.log = IF Ignored(TRUE, _isShuttingDown)
                                       THEN Emit(@, Event("ready", "none"))
                                       ELSE Emit(Emit(@, Event("ready", "none")),
                                                 Event("healthStateChange", "true"))]
  /\ _isHealthy' = IF Ignored(TRUE, _isShuttingDown) THEN _isHealthy ELSE TRUE
  /\ UNCHANGED <<healthVars, cfgVars, serverVars, proc, _isShuttingDown, gateVars, startupTasks, taskSt, callPc,
                 delayTimers, beaconVars, cleanupVars, timerVars, errors, readyCalled, invocations>>

ReadyPass ==
  /\ Running /\ mq # <<>> /\ Head(mq).k = "readyPass"
  /\ mq' = Append(Tail(mq), Reaction("readyCatch", 0))
  /\ UNCHANGED <<healthVars, cfgVars, serverVars, proc, flagVars, gateVars, startupTasks, taskSt, callPc,
                 delayTimers, beaconVars, cleanupVars, timerVars, events, errors,
                 readyCalled, invocations>>

\* constructor: .catch(async (err) => { emit('error', ...); terminate(1) })
ReadyCatch ==
  /\ Running /\ mq # <<>> /\ Head(mq).k = "readyCatch"
  /\ mq' = Tail(mq)
  /\ IF errorListener
     THEN /\ errors' = errors \cup {"service couldn't become ready"}
          /\ proc' = "exited"
     ELSE /\ Unhandled
          /\ errors' = errors
  /\ UNCHANGED <<healthVars, cfgVars, serverVars, flagVars, gateVars, startupTasks, taskSt, callPc, delayTimers,
                 beaconVars, cleanupVars, timerVars, events, readyCalled, invocations>>

(***************************************************************************)
(* Beacons and cleanup-task registration                                   *)
(***************************************************************************)

\* awaitBeacons' check(): no more live beacons in the array
CheckOffByOne(list) == Len(list) <= 1

Check(list) == Len(list) <= 0

\* createBeacon()
CreateBeacon(b) ==
  /\ Running
  /\ dieCount[b] = -1
  /\ \A a \in BeaconIds : a < b => dieCount[a] # -1
  /\ ~_isShuttingDown                   \* otherwise throws, nothing changes
  /\ beacons' = Append(beacons, b)
  /\ dieCount' = [dieCount EXCEPT ![b] = 0]
  /\ UNCHANGED <<healthVars, cfgVars, serverVars, proc, flagVars, gateVars, startupTasks, taskSt, mq, callPc,
                 delayTimers, awaiting, cleanupVars, timerVars, events, errors,
                 readyCalled, invocations>>

\* beacon.die(): indexOf, splice, emit('beaconKilled') -> awaitBeacons' check()
Die(b) ==
  /\ Running
  /\ dieCount[b] >= 0 /\ dieCount[b] < MaxDie
  /\ dieCount' = [dieCount EXCEPT ![b] = @ + 1]
  /\ LET left == Splice(beacons, IndexOf(beacons, b))
         drained == awaiting = "listening" /\ Check(left)
     IN /\ beacons' = left
        /\ awaiting' = IF drained THEN "resolved" ELSE awaiting
        /\ mq' = IF drained THEN Append(mq, Reaction("afterBeacons", b)) ELSE mq
  /\ UNCHANGED <<healthVars, cfgVars, serverVars, proc, flagVars, gateVars, startupTasks, taskSt, callPc,
                 delayTimers, cleanupVars, timerVars, events, errors, readyCalled, invocations>>

\* registerShutdownTask(shutdownTask)
RegisterShutdownTask ==
  /\ Running
  /\ shutdownTasks < MaxShutdownTasks
  /\ ~_isShuttingDown                   \* otherwise throws, nothing changes
  /\ shutdownTasks' = shutdownTasks + 1
  /\ UNCHANGED <<healthVars, cfgVars, serverVars, proc, flagVars, gateVars, startupTasks, taskSt, mq, callPc,
                 delayTimers, beaconVars, runSt, allSt, timerVars, events, errors,
                 readyCalled, invocations>>

(***************************************************************************)
(* Shutdown sequencer                                                      *)
(***************************************************************************)

\* shutdown(reason) up to `await this.deferredReady`
Enter(c) ==
  /\ Running
  /\ callPc[c] = "idle"
  /\ \A d \in Calls : d < c => callPc[d] # "idle"
  /\ callPc' = [callPc EXCEPT ![c] = "awaitReady"]
  /\ IF deferredReady = "pending"
     THEN readyWaiters' = Append(readyWaiters, c) /\ mq' = mq
     ELSE readyWaiters' = readyWaiters /\ mq' = Append(mq, Reaction("shutdownResume", c))
  /\ UNCHANGED <<healthVars, cfgVars, serverVars, proc, flagVars, deferredReady, startupTasks, taskSt,
                 delayTimers, beaconVars, cleanupVars, timerVars, events, errors,
                 readyCalled, invocations>>

\* an explicit shutdown() call
Shutdown(c) == Enter(c)

\* registerSignals: process.on(signal, () => void this.shutdown(...))
Signal(c) == LoopFree /\ Enter(c)

StartSequenceLeavesReady(c, q) ==
  /\ _isHealthy' = IF Ignored(_isReady, _isShuttingDown) THEN _isHealthy ELSE FALSE
  /\ _isShuttingDown' = TRUE
  /\ _isReady' = FALSE
  /\ events' = [events EXCEPT !.shutdown = @ + 1,
                               !.log = Emit(IF Ignored(_isReady, _isShuttingDown)
                                            THEN @
                                            ELSE Emit(@, Event("healthStateChange", "false")),
                                            Event("shutdown", "none"))]
  /\ timers' = IF configuration.shutdownTimeoutMs
               THEN timers \cup {"graceful"} ELSE timers
  /\ awaiting' = IF Check(beacons) THEN "resolved" ELSE "listening"
  /\ mq' = IF Check(beacons) THEN Append(q, Reaction("afterBeacons", 0)) ELSE q
  /\ callPc' = [callPc EXCEPT ![c] = "sequencing"]

\* shutdown() from signalUnhealthy() to the suspension in awaitBeacons()
StartSequence(c, q) ==
  /\ _isHealthy' = IF Ignored(_isReady, _isShuttingDown)     \* signalUnhealthy()
                   THEN _isHealthy ELSE FALSE
  /\ _isShuttingDown' = TRUE
  /\ _isReady' = _isReady
  /\ events' = [events EXCEPT !.shutdown = @ + 1,
                               !.log = Emit(IF Ignored(_isReady, _isShuttingDown)
                                            THEN @
                                            ELSE Emit(@, Event("healthStateChange", "false")),
                                            Event("shutdown", "none"))]
  /\ timers' = IF configuration.shutdownTimeoutMs
               THEN timers \cup {"graceful"} ELSE timers
  /\ awaiting' = IF Check(beacons) THEN "resolved" ELSE "listening"
  /\ mq' = IF Check(beacons) THEN Append(q, Reaction("afterBeacons", 0)) ELSE q
  /\ callPc' = [callPc EXCEPT ![c] = "sequencing"]

ShutdownBodyUnguarded(c, q) == StartSequence(c, q)

\* shutdown() from `if (this.isShuttingDown()) return` on
ShutdownBody(c, q) ==
  IF _isShuttingDown
  THEN /\ callPc' = [callPc EXCEPT ![c] = "returned"]
       /\ mq' = q
       /\ UNCHANGED <<flagVars, events, timers, awaiting>>
  ELSE StartSequence(c, q)

\* resumption of `await this.deferredReady`
ShutdownResume ==
  /\ Running /\ mq # <<>> /\ Head(mq).k = "shutdownResume"
  /\ LET c == Head(mq).id IN
     CASE deferredReady = "rejected" ->
            /\ callPc' = [callPc EXCEPT ![c] = "rejected"]
            /\ mq' = Tail(mq)
            /\ Unhandled
            /\ UNCHANGED <<flagVars, events, timers, awaiting, delayTimers>>
       [] deferredReady # "rejected" /\ configuration.shutdownDelayMs ->
            /\ callPc' = [callPc EXCEPT ![c] = "delay"]
            /\ delayTimers' = Append(delayTimers, c)
            /\ mq' = Tail(mq)
            /\ UNCHANGED <<proc, flagVars, events, timers, awaiting>>
       [] OTHER ->
            /\ ShutdownBody(c, Tail(mq))
            /\ UNCHANGED <<proc, delayTimers>>
  /\ UNCHANGED <<healthVars, cfgVars, serverVars, gateVars, startupTasks, taskSt, beacons, dieCount, cleanupVars,
                 fired, errors, readyCalled, invocations>>

DelayElapsedLatest ==
  /\ Running /\ LoopFree /\ delayTimers # <<>>
  /\ delayTimers' = SubSeq(delayTimers, 1, Len(delayTimers) - 1)
  /\ mq' = Append(mq, Reaction("afterDelay", delayTimers[Len(delayTimers)]))
  /\ UNCHANGED <<healthVars, cfgVars, serverVars, proc, flagVars, gateVars, startupTasks, taskSt, callPc,
                 beaconVars, cleanupVars, timerVars, events, errors, readyCalled, invocations>>

\* setTimeout(res, shutdownDelayMs) fires; equal delays fire in arming order
DelayElapsed ==
  /\ Running /\ LoopFree /\ delayTimers # <<>>
  /\ delayTimers' = Tail(delayTimers)
  /\ mq' = Append(mq, Reaction("afterDelay", Head(delayTimers)))
  /\ UNCHANGED <<healthVars, cfgVars, serverVars, proc, flagVars, gateVars, startupTasks, taskSt, callPc,
                 beaconVars, cleanupVars, timerVars, events, errors, readyCalled, invocations>>

AfterDelay ==
  /\ Running /\ mq # <<>> /\ Head(mq).k = "afterDelay"
  /\ ShutdownBody(Head(mq).id, Tail(mq))
  /\ UNCHANGED <<healthVars, cfgVars, serverVars, proc, gateVars, startupTasks, taskSt, delayTimers, beacons,
                 dieCount, cleanupVars, fired, errors, readyCalled, invocations>>

Registered == 1..shutdownTasks
Sequencing == CHOOSE c \in Calls : callPc[c] = "sequencing"

\* Promise.all over the invoked tasks: rejects with the first rejection,
\* fulfils once every task has fulfilled
AllOf(st) ==
  IF \E t \in Registered : st[t] \in {"threw", "rejected"} THEN "rejected"
  ELSE IF \A t \in Registered : st[t] = "fulfilled" THEN "fulfilled"
  ELSE "pending"

Settled(all) ==
  CASE all = "fulfilled" -> <<Reaction("afterTasks", 0)>>
    [] all = "rejected"  -> <<Reaction("shutdownFail", 0)>>
    [] OTHER             -> <<>>

\* executeShutdownTasks() up to `await Promise.all(shutdownTasks.map(task => task()))`:
\* each task returns (a settled or pending promise, or no promise) or throws;
\* a throw ends the map, so the tasks after it are not invoked
AfterBeacons ==
  /\ Running /\ mq # <<>> /\ Head(mq).k = "afterBeacons"
  /\ timers' = IF configuration.shutdownTasksTimeoutMs
               THEN timers \cup {"tasks"} ELSE timers
  /\ \E o \in [Registered -> {"fulfilled", "pending", "rejected", "threw"}] :
       LET st == [t \in Cleanups |->
                    IF t \in Registered /\ \A u \in Registered : u < t => o[u] # "threw"
                    THEN o[t] ELSE "idle"]
       IN /\ runSt' = st
          /\ invocations' = [t \in Cleanups |->
                               IF st[t] # "idle" THEN invocations[t] + 1 ELSE invocations[t]]
          /\ allSt' = AllOf([t \in Cleanups |-> IF t \in Registered THEN o[t] ELSE "idle"])
          /\ mq' = Tail(mq) \o Settled(allSt')
  /\ UNCHANGED <<healthVars, cfgVars, serverVars, proc, flagVars, gateVars, startupTasks, taskSt, callPc,
                 delayTimers, beaconVars, shutdownTasks, fired, events, errors,
                 readyCalled>>

\* a pending cleanup task settles
SettleShutdownTask(t, ok) ==
  /\ Running
  /\ runSt[t] = "pending"
  /\ runSt' = [runSt EXCEPT ![t] = IF ok THEN "fulfilled" ELSE "rejected"]
  /\ IF allSt = "pending"
     THEN allSt' = AllOf(runSt') /\ mq' = mq \o Settled(allSt')
     ELSE allSt' = allSt /\ mq' = mq
  /\ UNCHANGED <<healthVars, cfgVars, serverVars, proc, flagVars, gateVars, startupTasks, taskSt, callPc,
                 delayTimers, beaconVars, shutdownTasks, timerVars, events, errors,
                 readyCalled, invocations>>

\* executeShutdownTasks() after Promise.all fulfilled, then shutdown() to its end:
\* clearTimeout(shutdownTasksTimeout); clearTimeout(gracefulShutdownTimeout);
\* emit('close'); arm the 1 s watchdog
AfterTasks ==
  /\ Running /\ mq # <<>> /\ Head(mq).k = "afterTasks"
  /\ mq' = Tail(mq)
  /\ timers' = (timers \ {"tasks", "graceful"}) \cup {"watchdog"}
  /\ events' = [events EXCEPT !.close = @ + 1, !.log = Emit(@, Event("close", "none"))]
  /\ callPc' = [callPc EXCEPT ![Sequencing] = "done"]
  /\ UNCHANGED <<healthVars, cfgVars, serverVars, proc, flagVars, gateVars, startupTasks, taskSt, delayTimers,
                 beaconVars, cleanupVars, fired, errors, readyCalled, invocations>>

\* Promise.all rejected (or a task threw): executeShutdownTasks() and shutdown()
\* reject without reaching clearTimeout or emit('close')
ShutdownFail ==
  /\ Running /\ mq # <<>> /\ Head(mq).k = "shutdownFail"
  /\ mq' = Tail(mq)
  /\ callPc' = [callPc EXCEPT ![Sequencing] = "rejected"]
  /\ Unhandled
  /\ UNCHANGED <<healthVars, cfgVars, serverVars, flagVars, gateVars, startupTasks, taskSt, delayTimers,
                 beaconVars, cleanupVars, timerVars, events, errors, readyCalled, invocations>>

FireSilent(name, fault) ==
  /\ Running /\ LoopFree
  /\ name \in timers
  /\ timers' = timers \ {name}
  /\ fired' = fired \cup {name}
  /\ errors' = errors /\ proc' = "exited"
  /\ UNCHANGED <<healthVars, cfgVars, serverVars, flagVars, gateVars, startupTasks, taskSt, mq, callPc,
                 delayTimers, beaconVars, cleanupVars, events, readyCalled, invocations>>

\* a deadline timer callback: emit('error', ...); terminate(1).
\* Without an 'error' listener emit throws out of the callback.
Fire(name, fault) ==
  /\ Running /\ LoopFree
  /\ name \in timers
  /\ timers' = timers \ {name}
  /\ fired' = fired \cup {name}
  /\ IF errorListener
     THEN errors' = errors \cup {fault} /\ proc' = "exited"
     ELSE errors' = errors /\ proc' = "crashed"
  /\ UNCHANGED <<healthVars, cfgVars, serverVars, flagVars, gateVars, startupTasks, taskSt, mq, callPc,
                 delayTimers, beaconVars, cleanupVars, events, readyCalled, invocations>>

GracefulShutdownTimeout ==
  Fire("graceful", "graceful shutdown period ended, forcing process termination")

ShutdownTasksTimeout ==
  Fire("tasks", "shutdown tasks timeout, forcing process termination")

Watchdog ==
  Fire("watchdog", "process did not exit on its own, investigate what is keeping the event loop active")

(***************************************************************************)
(* Health                                                                  *)
(***************************************************************************)

\* signalHealthy()
SignalHealthy ==
  /\ Running
  /\ _isHealthy' = IF Ignored(_isReady, _isShuttingDown) THEN _isHealthy ELSE TRUE
  /\ events' = IF Ignored(_isReady, _isShuttingDown) THEN events
               ELSE [events EXCEPT !.log = Emit(@, Event("healthStateChange", "true"))]
  /\ UNCHANGED <<healthVars, cfgVars, serverVars, proc, _isReady, _isShuttingDown, gateVars,
                 startupTasks, taskSt, mq, callPc, delayTimers, beaconVars, cleanupVars,
                 timerVars, errors, readyCalled, invocations>>

\* signalUnhealthy()
SignalUnhealthy ==
  /\ Running
  /\ _isHealthy' = IF Ignored(_isReady, _isShuttingDown) THEN _isHealthy ELSE FALSE
  /\ events' = IF Ignored(_isReady, _isShuttingDown) THEN events
               ELSE [events EXCEPT !.log = Emit(@, Event("healthStateChange", "false"))]
  /\ UNCHANGED <<healthVars, cfgVars, serverVars, proc, _isReady, _isShuttingDown, gateVars,
                 startupTasks, taskSt, mq, callPc, delayTimers, beaconVars, cleanupVars,
                 timerVars, errors, readyCalled, invocations>>

\* registerHealthCheckHandler(healthCheckHandler)
RegisterHealthCheckHandler ==
  /\ Running
  /\ healthCheckHandlers < MaxHealthCheckHandlers
  /\ healthCheckHandlers' = healthCheckHandlers + 1
  /\ UNCHANGED <<probeSt, evalPc, evalResult, cfgVars, serverVars, proc, flagVars, gateVars,
                 startupTasks, taskSt, mq, callPc, delayTimers, beaconVars, cleanupVars,
                 timerVars, events, errors, readyCalled, invocations>>

Handlers == 1..healthCheckHandlers

\* Promise.all over the handlers' results
ProbesSettled(st) ==
  CASE \E h \in Probes : st[h] \in {"threw", "rejected"} -> <<Reaction("evalFail", 0)>>
    [] \A h \in Probes : st[h] # "pending"               -> <<Reaction("evalResume", 0)>>
    [] OTHER                                             -> <<>>

HealthyResultFlagOnly(flag) == flag

\* the value isHealthy() returns after the handlers have been awaited (line 63)
HealthyResult(flag) == flag /\ _isReady /\ ~_isShuttingDown

\* isHealthy() up to `await this.areHealthCheckHandlersPassing()`, one evaluation at a time
IsHealthy ==
  /\ Running
  /\ evalPc \in {"idle", "returned"}
  /\ IF (~_isReady \/ _isShuttingDown) \/ ~_isHealthy
     THEN /\ evalPc' = "returned"
          /\ evalResult' = "false"
          /\ UNCHANGED <<probeSt, mq, timers>>
     ELSE /\ timers' = IF configuration.healthCheckTimeoutMs
                       THEN timers \cup {"health"} ELSE timers
          /\ \E o \in [Handlers -> {"true", "false", "pending", "rejected", "threw"}] :
               /\ probeSt' = [h \in Probes |->
                                IF h \in Handlers /\ \A g \in Handlers : g < h => o[g] # "threw"
                                THEN o[h] ELSE "idle"]
               /\ mq' = mq \o ProbesSettled(probeSt')
               /\ evalPc' = IF ProbesSettled(probeSt') = <<>> THEN "probing" ELSE "queued"
          /\ evalResult' = "none"
  /\ UNCHANGED <<healthCheckHandlers, cfgVars, serverVars, proc, flagVars, gateVars, startupTasks,
                 taskSt, callPc, delayTimers, beaconVars, cleanupVars, fired, events,
                 errors, readyCalled, invocations>>

\* a pending health-check handler settles
SettleProbe(h, r) ==
  /\ Running
  /\ evalPc = "probing"
  /\ probeSt[h] = "pending"
  /\ probeSt' = [probeSt EXCEPT ![h] = r]
  /\ mq' = mq \o ProbesSettled(probeSt')
  /\ evalPc' = IF ProbesSettled(probeSt') = <<>> THEN "probing" ELSE "queued"
  /\ UNCHANGED <<healthCheckHandlers, evalResult, cfgVars, serverVars, proc, flagVars, gateVars,
                 startupTasks, taskSt, callPc, delayTimers, beaconVars, cleanupVars,
                 timerVars, events, errors, readyCalled, invocations>>

\* areHealthCheckHandlersPassing() after Promise.all, then isHealthy() to its end:
\* clearTimeout; this._isHealthy = <true> && every(result); return (line 63)
EvalResume ==
  /\ Running /\ mq # <<>> /\ Head(mq).k = "evalResume"
  /\ mq' = Tail(mq)
  /\ timers' = timers \ {"health"}
  /\ _isHealthy' = \A h \in Probes : probeSt[h] \in {"idle", "true"}
  /\ evalResult' = IF HealthyResult(_isHealthy') THEN "true" ELSE "false"
  /\ evalPc' = "returned"
  /\ UNCHANGED <<healthCheckHandlers, probeSt, cfgVars, serverVars, proc, _isReady, _isShuttingDown,
                 gateVars, startupTasks, taskSt, callPc, delayTimers, beaconVars,
                 cleanupVars, fired, events, errors, readyCalled, invocations>>

\* a handler threw or rejected: Promise.all rejects and isHealthy() rejects
EvalFail ==
  /\ Running /\ mq # <<>> /\ Head(mq).k = "evalFail"
  /\ mq' = Tail(mq)
  /\ evalResult' = "threw"
  /\ evalPc' = "returned"
  /\ UNCHANGED <<healthCheckHandlers, probeSt, cfgVars, serverVars, proc, flagVars, gateVars,
                 startupTasks, taskSt, callPc, delayTimers, beaconVars, cleanupVars,
                 timerVars, events, errors, readyCalled, invocations>>

\* the health-check timer callback: emit('error', ...); return false
HealthCheckTimeout ==
  /\ Running /\ LoopFree
  /\ "health" \in timers
  /\ timers' = timers \ {"health"}
  /\ fired' = fired \cup {"health"}
  /\ IF errorListener
     THEN errors' = errors \cup {"health check timeout, service deemed unhealthy"}
          /\ proc' = proc
     ELSE errors' = errors /\ proc' = "crashed"
  /\ UNCHANGED <<healthVars, cfgVars, serverVars, flagVars, gateVars, startupTasks, taskSt, mq,
                 callPc, delayTimers, beaconVars, cleanupVars, events, readyCalled,
                 invocations>>


(***************************************************************************)
(* HttpServerManager.  The manager tracks the sockets of the 'connection'  *)
(* event.  http.Server emits 'request' for every request parsed on a       *)
(* socket, also while an earlier response on that socket is unfinished     *)
(* (pipelining); responses finish in request order.  On an https.Server    *)
(* the 'connection' event carries the raw socket while request.socket is   *)
(* the TLS socket wrapping it, so the flag written by onRequest is not the *)
(* flag of the tracked object.                                             *)
(***************************************************************************)

\* this.connections: sockets added by onConnection and not yet deleted by
\* their 'close' event
connections == {s \in Sockets : socketSt[s] \in {"open", "destroyed"}}

\* connection[isIdle] as read from the tracked socket object
TrackedIdle(s) == IF secure THEN TRUE ELSE isIdle[s]

\* socket.destroy() on every socket of the set; destroying twice is a no-op
Destroy(st, set) == [s \in Sockets |-> IF s \in set /\ st[s] = "open" THEN "destroyed" ELSE st[s]]

\* onConnection(connection): flag the socket idle and track it
OnConnection(s) ==
  /\ listening
  /\ socketSt[s] = "new"
  /\ \A u \in Sockets : u < s => socketSt[u] # "new"
  /\ socketSt' = [socketSt EXCEPT ![s] = "open"]
  /\ isIdle' = [isIdle EXCEPT ![s] = ~secure]
  /\ UNCHANGED <<watchtowerVars, secure, listening, isServerClosing, inFlight, closePc,
                 closeActiveConnectionsTimeout>>

\* onRequest(request, response) up to the registration of the 'finish' listener
OnRequest(s) ==
  /\ socketSt[s] = "open"
  /\ inFlight[s] < MaxInFlight
  /\ inFlight' = [inFlight EXCEPT ![s] = @ + 1]
  /\ isIdle' = [isIdle EXCEPT ![s] = FALSE]
  /\ UNCHANGED <<watchtowerVars, secure, listening, isServerClosing, socketSt, closePc,
                 closeActiveConnectionsTimeout>>

CloseIdleConnectionNever(st, s, idle) == st

\* closeIdleConnection(connection): if (connection[isIdle]) connection.destroy()
CloseIdleConnection(st, s, idle) == IF idle THEN Destroy(st, {s}) ELSE st

\* response.on('finish', ...): the oldest response on the socket has finished
OnFinish(s) ==
  /\ socketSt[s] = "open"
  /\ inFlight[s] > 0
  /\ inFlight' = [inFlight EXCEPT ![s] = @ - 1]
  /\ isIdle' = [isIdle EXCEPT ![s] = TRUE]
  /\ socketSt' = IF isServerClosing THEN CloseIdleConnection(socketSt, s, TRUE) ELSE socketSt
  /\ UNCHANGED <<watchtowerVars, secure, listening, isServerClosing, closePc,
                 closeActiveConnectionsTimeout>>

RECURSIVE CloseIdleConnections(_, _)
CloseIdleConnections(st, set) ==
  IF set = {} THEN st
  ELSE LET s == CHOOSE x \in set : TRUE
       IN  CloseIdleConnections(CloseIdleConnection(st, s, TrackedIdle(s)), set \ {s})

CloseNoWait(k) ==
  /\ closePc[k] = "idle"
  /\ \A j \in CloseCalls : j < k => closePc[j] # "idle"
  /\ isServerClosing' = TRUE
  /\ socketSt' = CloseIdleConnections(socketSt, connections)
  /\ closeActiveConnectionsTimeout' = [closeActiveConnectionsTimeout EXCEPT ![k] = "armed"]
  /\ listening' = FALSE
  /\ closePc' = [closePc EXCEPT ![k] = "resolved"]
  /\ UNCHANGED <<watchtowerVars, secure, isIdle, inFlight>>

\* close() up to `await new Promise(...)`: the idle connections are destroyed,
\* the timer is armed, server.close(callback) stops the server from accepting.
\* A server that is not running hands an error to the callback.
Close(k) ==
  /\ closePc[k] = "idle"
  /\ \A j \in CloseCalls : j < k => closePc[j] # "idle"
  /\ isServerClosing' = TRUE
  /\ socketSt' = CloseIdleConnections(socketSt, connections)
  /\ closeActiveConnectionsTimeout' = [closeActiveConnectionsTimeout EXCEPT ![k] = "armed"]
  /\ listening' = FALSE
  /\ closePc' = [closePc EXCEPT ![k] = IF listening THEN "waiting" ELSE "waitingErr"]
  /\ UNCHANGED <<watchtowerVars, secure, isIdle, inFlight>>

CloseActiveConnectionsIdleOnly(k) ==
  /\ closeActiveConnectionsTimeout[k] = "armed"
  /\ closeActiveConnectionsTimeout' = [closeActiveConnectionsTimeout EXCEPT ![k] = "fired"]
  /\ socketSt' = CloseIdleConnections(socketSt, connections)
  /\ UNCHANGED <<watchtowerVars, secure, listening, isServerClosing, isIdle, inFlight, closePc>>

\* the closeActiveConnectionsTimeout callback: destroy every tracked socket
CloseActiveConnections(k) ==
  /\ closeActiveConnectionsTimeout[k] = "armed"
  /\ closeActiveConnectionsTimeout' = [closeActiveConnectionsTimeout EXCEPT ![k] = "fired"]
  /\ socketSt' = Destroy(socketSt, connections)
  /\ UNCHANGED <<watchtowerVars, secure, listening, isServerClosing, isIdle, inFlight, closePc>>

\* connection.on('close', () => this.connections.delete(symbol)) after destroy()
OnClose(s) ==
  /\ socketSt[s] = "destroyed"
  /\ socketSt' = [socketSt EXCEPT ![s] = "closed"]
  /\ inFlight' = [inFlight EXCEPT ![s] = 0]
  /\ UNCHANGED <<watchtowerVars, secure, listening, isServerClosing, isIdle, closePc,
                 closeActiveConnectionsTimeout>>

\* the same 'close' event when the peer ends the connection
PeerClose(s) ==
  /\ socketSt[s] = "open"
  /\ socketSt' = [socketSt EXCEPT ![s] = "closed"]
  /\ inFlight' = [inFlight EXCEPT ![s] = 0]
  /\ UNCHANGED <<watchtowerVars, secure, listening, isServerClosing, isIdle, closePc,
                 closeActiveConnectionsTimeout>>

\* the server's 'close' event, emitted once it has stopped and no connection
\* is left: the callback of every waiting close() runs (reject on error,
\* clearTimeout, resolve)
ServerClosed ==
  /\ ~listening
  /\ connections = {}
  /\ \E k \in CloseCalls : closePc[k] \in {"waiting", "waitingErr"}
  /\ closePc' = [k \in CloseCalls |->
                   CASE closePc[k] = "waiting"    -> "resolved"
                     [] closePc[k] = "waitingErr" -> "rejected"
                     [] OTHER                     -> closePc[k]]
  /\ closeActiveConnectionsTimeout' =
       [k \in CloseCalls |->
          IF closePc[k] \in {"waiting", "waitingErr"} /\ closeActiveConnectionsTimeout[k] = "armed"
          THEN "cleared" ELSE closeActiveConnectionsTimeout[k]]
  /\ UNCHANGED <<watchtowerVars, secure, listening, isServerClosing, socketSt, isIdle, inFlight>>

(***************************************************************************)
(* Specifications.  The operations fall into groups that share no state    *)
(* but the lifecycle flags and the readiness gate; Spec interleaves all of *)
(* them, the other specifications interleave the sequencer with one or two *)
(* groups, the environment not using the rest of the interface.            *)
(***************************************************************************)

GateSteps ==
  \/ \E t \in Tasks, st \in {"pending", "fulfilled", "rejected"} : QueueStartupTask(t, st)
  \/ \E t \in Tasks, ok \in BOOLEAN : SettleStartupTask(t, ok)
  \/ StartupThen
  \/ StartupPass
  \/ StartupCatch
  \/ ReadyPass
  \/ ReadyCatch

SequencerSteps ==
  \/ Ready
  \/ ReadyThen
  \/ \E c \in Calls : Shutdown(c)
  \/ \E c \in Calls : Signal(c)
  \/ ShutdownResume
  \/ DelayElapsed
  \/ AfterDelay
  \/ AfterBeacons
  \/ AfterTasks
  \/ GracefulShutdownTimeout
  \/ Watchdog

BeaconSteps ==
  \/ \E b \in BeaconIds : CreateBeacon(b)
  \/ \E b \in BeaconIds : Die(b)

CleanupSteps ==
  \/ RegisterShutdownTask
  \/ \E t \in Cleanups, ok \in BOOLEAN : SettleShutdownTask(t, ok)
  \/ ShutdownFail
  \/ ShutdownTasksTimeout

HealthSteps ==
  \/ SignalHealthy
  \/ SignalUnhealthy
  \/ RegisterHealthCheckHandler
  \/ IsHealthy
  \/ \E h \in Probes, r \in {"true", "false", "rejected"} : SettleProbe(h, r)
  \/ EvalResume
  \/ EvalFail
  \/ HealthCheckTimeout

ServerSteps ==
  \/ \E s \in Sockets : OnConnection(s)
  \/ \E s \in Sockets : OnRequest(s)
  \/ \E s \in Sockets : OnFinish(s)
  \/ \E s \in Sockets : OnClose(s)
  \/ \E s \in Sockets : PeerClose(s)
  \/ \E k \in CloseCalls : Close(k)
  \/ \E k \in CloseCalls : CloseActiveConnections(k)
  \/ ServerClosed

Next == GateSteps \/ SequencerSteps \/ BeaconSteps \/ CleanupSteps \/ HealthSteps \/ ServerSteps

Spec == Init /\ [][Next]_vars

\* where the HttpServerManager is not used its server type does not matter
InitIdleManager == Init /\ ~secure

\* where no cleanup task is registered the cleanup phase ends in the step
\* after it starts: shutdownTasksTimeoutMs is left at its default (disabled)
InitNoCleanupTasks == InitIdleManager /\ ~configuration.shutdownTasksTimeoutMs

\* where isHealthy() is never called the health-check timer is never armed:
\* healthCheckTimeoutMs is left at its default (enabled)
InitDefaultHealthCheck == Init /\ configuration.healthCheckTimeoutMs /\ ~secure

\* startup tasks, readiness and shutdown triggers
NextGate == GateSteps \/ SequencerSteps
SpecGate == InitDefaultHealthCheck /\ [][NextGate]_vars

\* shutdown triggers, beacons and cleanup tasks
NextShutdown == SequencerSteps \/ BeaconSteps \/ CleanupSteps
SpecShutdown == InitDefaultHealthCheck /\ [][NextShutdown]_vars

\* startup, shutdown, beacons and cleanup tasks together
NextLifecycle == GateSteps \/ SequencerSteps \/ BeaconSteps \/ CleanupSteps
SpecLifecycle == InitDefaultHealthCheck /\ [][NextLifecycle]_vars

\* startup tasks that have failed by the time they are queued
FailureSteps ==
  \/ \E t \in Tasks : QueueStartupTask(t, "rejected")
  \/ StartupPass
  \/ StartupCatch
  \/ ReadyPass
  \/ ReadyCatch

\* failing startup, shutdown triggers and cleanup tasks: every path to terminate
NextFaults == FailureSteps \/ SequencerSteps \/ CleanupSteps
SpecFaults == InitDefaultHealthCheck /\ [][NextFaults]_vars

\* the event loop runs every queued promise reaction and fires every armed
\* timer; application calls and task completions are not forced to happen
Scheduling ==
  /\ WF_vars(StartupThen) /\ WF_vars(StartupPass) /\ WF_vars(StartupCatch)
  /\ WF_vars(ReadyThen) /\ WF_vars(ReadyPass) /\ WF_vars(ReadyCatch)
  /\ WF_vars(ShutdownResume) /\ WF_vars(AfterDelay)
  /\ WF_vars(AfterBeacons) /\ WF_vars(AfterTasks)
  /\ WF_vars(DelayElapsed) /\ WF_vars(GracefulShutdownTimeout) /\ WF_vars(Watchdog)

\* startup and shutdown triggers under a fair event loop
SpecLive == InitDefaultHealthCheck /\ [][NextGate]_vars /\ Scheduling

\* the HttpServerManager alone, the Watchtower left as constructed with its
\* default configuration
InitManager ==
  /\ Init
  /\ configuration = [shutdownDelayMs |-> FALSE, shutdownTimeoutMs |-> TRUE,
                      shutdownTasksTimeoutMs |-> FALSE, healthCheckTimeoutMs |-> TRUE]
  /\ errorListener
SpecServer == InitManager /\ [][ServerSteps]_vars

\* the event loop fires the armed timer and delivers the 'close' events of
\* destroyed sockets and of the drained server
ServerScheduling ==
  /\ \A s \in Sockets : WF_vars(OnClose(s))
  /\ \A k \in CloseCalls : WF_vars(CloseActiveConnections(k))
  /\ WF_vars(ServerClosed)
SpecServerLive == SpecServer /\ ServerScheduling

\* readiness, shutdown triggers and health evaluation
NextHealth == SequencerSteps \/ HealthSteps
SpecHealth == InitNoCleanupTasks /\ [][NextHealth]_vars

(***************************************************************************)
(* Properties                                                              *)
(***************************************************************************)

Triggers == Cardinality({c \in Calls : callPc[c] # "idle"})
Live(b) == dieCount[b] = 0          \* created and never released by its holder

\* C1: however many times shutdown is triggered, the phase sequence runs at
\* most once: at most one 'shutdown' event (exactly one once the service is
\* shutting down), no cleanup task invoked twice, at most one 'close', and
\* when 'close' is emitted every registered cleanup task has been invoked
\* exactly once.
C1_ShutdownIdempotent ==
  /\ events.shutdown <= 1
  /\ events.close <= 1
  /\ (_isShuttingDown <=> events.shutdown = 1)
  /\ \A t \in Cleanups : invocations[t] <= 1
  /\ Cardinality({c \in Calls : callPc[c] \in {"sequencing", "done"}}) <= 1
  /\ (events.close = 1 =>
        /\ events.shutdown = 1
        /\ \A t \in Registered : invocations[t] = 1)

\* two triggers, one ran the sequence to 'close', the other returned early
C1_Witness ==
  /\ Triggers >= 2
  /\ events.close = 1
  /\ shutdownTasks >= 1
  /\ \E c \in Calls : callPc[c] = "done"
  /\ \E c \in Calls : callPc[c] = "returned"

\* C2: whenever isReady() is true, every startup task that has been queued
\* has completed successfully (none pending, none failed).
C2_ReadyImpliesAllTasksDone ==
  _isReady => \A t \in Tasks : taskSt[t] \in {"unqueued", "fulfilled"}

\* C3: the 'ready' event is not emitted before ready() has been called.
C3_ReadyOnlyAfterReadyCall ==
  events.ready > 0 => readyCalled

\* C4: once a queued startup task has rejected and its rejection has been
\* handled, the gate is failed, the error has been emitted and the service
\* is not ready (stated for the runs in which an 'error' listener is
\* subscribed, where emit('error') returns).
C4_FailureFailsGate ==
  \A t \in Tasks :
    (errorListener /\ taskSt[t] = "caught") =>
      /\ deferredReady = "rejected"
      /\ ~_isReady
      /\ "startup task failed" \in errors

\* C5: an isHealthy() evaluation that returns true returns it in a state
\* where isReady() is true and shutdown has not started, also when those
\* changed while its probes were running.
C5_HealthFalseOutsideReady ==
  [][(evalPc # "returned" /\ evalPc' = "returned" /\ evalResult' = "true")
       => (_isReady' /\ ~_isShuttingDown')]_vars

\* an evaluation whose probes all passed returned false because shutdown
\* started while they were running
C5_Witness ==
  /\ evalPc = "returned" /\ evalResult = "false"
  /\ healthCheckHandlers >= 1
  /\ _isShuttingDown /\ _isHealthy

\* C6: once the cleanup phase has started, no beacon is still live.
C6_NoCleanupWhileBeaconLive ==
  allSt # "none" => \A b \in BeaconIds : ~Live(b)

\* C7: provided no beacon is released twice, the drain wait is resolved
\* exactly in the states where shutdown has started and no beacon is live:
\* it resolves in the step of the last release, and in the step that starts
\* the drain when no beacon is live then.
C7_DrainExact ==
  (\A b \in BeaconIds : dieCount[b] <= 1) =>
     /\ (awaiting = "resolved") <=> (_isShuttingDown /\ \A b \in BeaconIds : ~Live(b))
     /\ (awaiting = "listening") <=> (_isShuttingDown /\ \E b \in BeaconIds : Live(b))

\* the drain was resolved by the release of the last of two beacons
C7_Witness ==
  /\ \A b \in BeaconIds : dieCount[b] = 1
  /\ awaiting = "resolved"
  /\ \E i \in 1..Len(mq) : mq[i].k = "afterBeacons" /\ mq[i].id >= 1

\* C8: a second or later die() on the same beacon leaves the beacons array
\* unchanged.
C8_DieIdempotent ==
  [][\A b \in BeaconIds :
       (dieCount[b] >= 1 /\ dieCount'[b] = dieCount[b] + 1) => beacons' = beacons]_vars

\* C9: a cleanup task that throws or rejects does not keep any registered
\* task from being invoked and does not make shutdown() reject.
C9_CleanupFailureContained ==
  /\ allSt # "none" => \A t \in Registered : invocations[t] = 1
  /\ \A c \in Calls : callPc[c] = "rejected" => deferredReady = "rejected"

\* C10: when the overall shutdown deadline has elapsed, terminate has been
\* called (process.exit(1)).
C10_DeadlineTerminates ==
  "graceful" \in fired => proc = "exited"

\* C11: the cleanup-task deadline fires only while the cleanup phase is
\* still running and then terminate is called; once 'close' is emitted no
\* deadline timer is armed any more.
C11_DeadlineRace ==
  /\ "tasks" \in fired => (proc = "exited" /\ allSt = "pending")
  /\ events.close > 0 => timers \cap {"tasks", "graceful"} = {}

\* C12: no step of an isHealthy() evaluation changes the health flag from
\* unhealthy to healthy.
C12_EvaluateNeverUpgrades ==
  [][(evalPc' # evalPc \/ evalResult' # evalResult) => (_isHealthy' => _isHealthy)]_vars

\* C13: when the health-check timer fires while the handlers of an
\* evaluation are still awaited (and the stall is reported to an 'error'
\* listener), that evaluation ends there with result unhealthy.
C13_ProbeDeadlineFailsClosed ==
  [][("health" \in timers /\ "health" \notin timers' /\ evalPc = "probing"
        /\ proc' = "running")
       => (evalPc' = "returned" /\ evalResult' = "false" /\ ~_isHealthy')]_vars

\* C14: an isHealthy() evaluation never raises an exception to its caller,
\* and every registered handler of a started evaluation has been invoked.
C14_ProbeFailureIsUnhealthy ==
  /\ evalResult # "threw"
  /\ evalPc \in {"probing", "queued"} =>
       \A h \in Probes : probeSt[h] = "idle" =>
          \A g \in Probes : g > h => probeSt[g] = "idle"

\* C17: the events are emitted in the order ready, healthStateChange*,
\* shutdown, close: the first event is 'ready', no event is followed by one
\* of an earlier kind, and only 'healthStateChange' occurs more than once.
C17_EventOrder ==
  LET log == events.log
      Rank(e) == CASE e = "ready" -> 1
                   [] e = "healthStateChange" -> 2
                   [] e = "shutdown" -> 3
                   [] e = "close" -> 4
  IN
  /\ Len(log) > 0 => log[1].e = "ready"
  /\ \A i \in 1..Len(log), j \in 1..Len(log) :
        i < j => /\ Rank(log[i].e) <= Rank(log[j].e)
                 /\ (log[i].e = log[j].e => log[i].e = "healthStateChange")

\* a complete run in which the health state was signalled between 'ready'
\* and 'shutdown'
C17_Witness ==
  /\ Len(events.log) = 4
  /\ events.log[2].e = "healthStateChange"
  /\ events.log[4].e = "close"

\* C16: no shutdown step is taken before the readiness gate has resolved,
\* and isShuttingDown() is true only where isReady() is true.
C16_ShutdownWaitsForGate ==
  /\ _isShuttingDown => _isReady
  /\ deferredReady # "resolved" =>
       /\ events.shutdown = 0
       /\ ~_isShuttingDown
       /\ allSt = "none" /\ awaiting = "no"
       /\ \A c \in Calls : callPc[c] \in {"idle", "awaitReady", "rejected"}

\* the gate has just resolved while a shutdown() call was waiting for it:
\* the ready handler is queued ahead of the resumption of that call
C16_Witness ==
  /\ deferredReady = "resolved" /\ ~_isReady /\ ~_isShuttingDown
  /\ Len(mq) >= 2
  /\ mq[1].k = "readyThen"
  /\ mq[2].k = "shutdownResume"

\* the fault each path to terminate reports
FaultOf(cause) ==
  CASE cause = "startup"  -> "service couldn't become ready"
    [] cause = "graceful" -> "graceful shutdown period ended, forcing process termination"
    [] cause = "tasks"    -> "shutdown tasks timeout, forcing process termination"
    [] cause = "watchdog" -> "process did not exit on its own, investigate what is keeping the event loop active"

\* C18: every step in which terminate is called also emits an 'error' that
\* names the cause of that step, the four causes have pairwise different
\* faults, and the watchdog is armed only once 'close' has been emitted.
C18_FaultBeforeTerminate ==
  [][/\ (proc = "running" /\ proc' = "exited") =>
          LET cause == IF fired' = fired THEN "startup"
                       ELSE CHOOSE n \in fired' : n \notin fired
          IN /\ FaultOf(cause) \notin errors
             /\ errors' = errors \cup {FaultOf(cause)}
             /\ cause = "startup" => deferredReady = "rejected"
     /\ LET Causes == {"startup", "graceful", "tasks", "watchdog"}
        IN  \A a \in Causes, b \in Causes : a # b => FaultOf(a) # FaultOf(b)
     /\ "watchdog" \in (timers' \cup fired') => events'.close >= 1]_vars

\* terminate has been called by the watchdog after a complete shutdown
C18_Witness ==
  /\ proc = "exited"
  /\ "watchdog" \in fired
  /\ events.close = 1
  /\ FaultOf("watchdog") \in errors

\* C19: isReady() and isShuttingDown() never go from true back to false, and
\* a shutdown that has started is never started again: 'shutdown' is emitted
\* at most once and no cleanup task is invoked twice.
C19_ForwardOnly ==
  [][/\ (_isReady => _isReady')
     /\ (_isShuttingDown => _isShuttingDown')
     /\ (proc # "running" => proc' = proc)
     /\ events'.shutdown >= events.shutdown /\ events'.shutdown <= 1
     /\ events'.close >= events.close
     /\ \A t \in Cleanups : invocations'[t] >= invocations[t] /\ invocations'[t] <= 1]_vars

\* a shutdown has run to 'close' with a second trigger turned away; the
\* service still reports isReady()
C19_Witness ==
  /\ _isReady /\ _isShuttingDown
  /\ events.close = 1
  /\ \E c \in Calls : callPc[c] = "returned"

\* C20: the gate settles at most once: 'ready' is emitted at most once and
\* never when the gate failed, a settled gate never changes, and a ready()
\* call made after the gate settled changes nothing.
C20_GateSettlesOnce ==
  [][/\ events'.ready <= 1
     /\ (deferredReady' = "rejected" => events'.ready = 0)
     /\ (deferredReady # "pending" => deferredReady' = deferredReady)
     /\ (deferredReady # "pending" /\ Ready) =>
          UNCHANGED <<healthVars, cfgVars, serverVars, proc, flagVars, gateVars, startupTasks, taskSt,
                      mq, callPc, delayTimers, beaconVars, cleanupVars, timerVars,
                      events, errors, invocations>>]_vars

\* ready() has been called and a startup task has completed, the gate is
\* resolved and its handler has not run yet: a further ready() call would
\* resolve again
C20_Witness ==
  /\ deferredReady = "resolved" /\ ~_isReady
  /\ readyCalled
  /\ \E t \in Tasks : taskSt[t] = "fulfilled"
  /\ startupTasks = <<>>

\* C15: once the service is marked shutting down no beacon is created and
\* no cleanup task is registered, and once the cleanup phase has started
\* every task registered before that mark has been invoked.
C15_RegistrationClosed ==
  [][/\ _isShuttingDown =>
          /\ shutdownTasks' = shutdownTasks
          /\ \A b \in BeaconIds : dieCount[b] = -1 => dieCount'[b] = -1
          /\ \A b \in BeaconIds : IndexOf(beacons', b) # -1 => IndexOf(beacons, b) # -1
     /\ \A t \in Cleanups : invocations'[t] > 0 => t <= shutdownTasks'
     /\ allSt' # "none" => \A t \in 1..shutdownTasks' : invocations'[t] = 1]_vars

\* C21: once the readiness gate has resolved, no startup task is accepted
\* any more: every queueStartupTask call raises and queues nothing.
C21_NoTaskAfterGateResolved ==
  [][deferredReady = "resolved" =>
       /\ \A t \in Tasks : taskSt[t] = "unqueued" => taskSt'[t] = "unqueued"
       /\ Len(startupTasks') <= Len(startupTasks)]_vars

\* C22: a ready() call made with no pending startup task, the service being
\* neither ready nor shutting down, leaves isReady() true and 'ready' emitted
\* when it returns.
C22_ReadyResolvesSynchronously ==
  [][(Ready /\ ~_isReady /\ ~_isShuttingDown /\ Len(startupTasks) <= 0
        /\ deferredReady = "pending")
       => (_isReady' /\ events'.ready = 1)]_vars

\* C23: with a shutdown delay configured the service is marked shutting down
\* only by the step in which the first trigger's delay has elapsed; until
\* then isShuttingDown() is false (beacons and cleanup tasks are accepted),
\* and no trigger, resumption or elapsed delay of another call changes the
\* health flag.
C23_DelayBeforeMark ==
  [][configuration.shutdownDelayMs =>
       /\ (_isShuttingDown' /\ ~_isShuttingDown) =>
             (callPc[1] = "delay" /\ callPc'[1] = "sequencing")
       /\ callPc'[1] \in {"idle", "awaitReady", "delay"} => ~_isShuttingDown'
       /\ (callPc' # callPc /\ ~_isShuttingDown') =>
             (_isHealthy' = _isHealthy /\ events' = events)
       /\ (delayTimers' # delayTimers /\ Len(delayTimers') < Len(delayTimers)) =>
             delayTimers' = Tail(delayTimers)]_vars

\* the first trigger's delay has elapsed and started the sequence while the
\* delay of a second trigger, made during the first delay, is still running
C23_Witness ==
  /\ configuration.shutdownDelayMs
  /\ callPc[1] = "sequencing"
  /\ callPc[2] = "delay"
  /\ _isShuttingDown

\* C24: when the cleanup phase has started every registered cleanup task
\* has been invoked, whatever the other tasks did.
C24_AllCleanupsStarted ==
  allSt # "none" => \A t \in Registered : runSt[t] # "idle"

\* C28: a run without an 'error' listener takes the steps a run with one
\* takes: a deadline timer that fires calls terminate, the health-check
\* timer leaves the process running, a failed startup task rejects the gate
\* and the gate's catch handler calls terminate.
C28_ObserversDoNotInterfere ==
  [][~errorListener =>
       /\ \A n \in fired' \ fired :
             IF n = "health" THEN proc' = proc ELSE proc' = "exited"
       /\ (mq # <<>> /\ Head(mq).k = "startupCatch"
             /\ taskSt[Head(mq).id] # "caught" /\ taskSt'[Head(mq).id] = "caught") =>
             (deferredReady' = RejectedGate /\ proc' = proc)
       /\ (mq # <<>> /\ Head(mq).k = "readyCatch" /\ mq' = Tail(mq)) =>
             proc' = "exited"]_vars

\* C29: with the overall shutdown deadline enabled (and an 'error' listener
\* subscribed), every shutdown trigger is eventually followed by 'close' or
\* by the end of the process (a terminate call, or an unhandled rejection).
C29_ShutdownEnds ==
  (Triggers > 0 /\ configuration.shutdownTimeoutMs /\ errorListener)
     ~> (events.close > 0 \/ proc # "running")

\* C25: while the manager is closing no tracked connection is open and
\* idle: close() destroys every connection that is idle when it is called,
\* and a connection whose response finishes during closing is destroyed in
\* that step.
C25_NoIdleConnectionWhileClosing ==
  [][/\ isServerClosing' =>
          \A s \in Sockets : socketSt'[s] = "open" => (inFlight'[s] > 0 /\ ~TrackedIdle(s)')
     /\ (~isServerClosing /\ isServerClosing') =>
          \A s \in Sockets : (socketSt[s] = "open" /\ inFlight[s] = 0) => socketSt'[s] = "destroyed"
     /\ isServerClosing =>
          \A s \in Sockets : (socketSt[s] = "open" /\ inFlight'[s] < inFlight[s]) =>
             socketSt'[s] # "open"]_vars

\* during closing one connection has been destroyed and another, with a
\* request in flight, is still open
C25_Witness ==
  /\ isServerClosing /\ ~secure
  /\ \E s \in Sockets : socketSt[s] = "destroyed" /\ inFlight[s] = 0
  /\ \E u \in Sockets : socketSt[u] = "open" /\ inFlight[u] > 0

\* C26: the manager destroys a connection that still has a request in
\* flight only in the step in which a closeActiveConnectionsTimeout fires.
C26_ActiveOnlyByTimer ==
  [][\A s \in Sockets :
        (socketSt[s] = "open" /\ socketSt'[s] = "destroyed" /\ inFlight'[s] > 0) =>
           \E k \in CloseCalls : /\ closeActiveConnectionsTimeout[k] = "armed"
                                 /\ closeActiveConnectionsTimeout'[k] = "fired"]_vars

\* C27: a close() call settles only in the step of the server's 'close'
\* event (server stopped, no connection left), in that step its timer is no
\* longer armed, and the timer of a settled call never fires.
C27_CloseSettlesOnServerClose ==
  [][\A k \in CloseCalls :
        /\ (closePc'[k] \in {"resolved", "rejected"} /\ closePc[k] \notin {"resolved", "rejected"}) =>
              /\ closePc[k] \in {"waiting", "waitingErr"}
              /\ ~listening /\ connections = {}
              /\ closeActiveConnectionsTimeout'[k] \in {"fired", "cleared"}
        /\ closePc[k] \in {"resolved", "rejected"} =>
              /\ closePc'[k] = closePc[k]
              /\ closeActiveConnectionsTimeout'[k] = closeActiveConnectionsTimeout[k]
              /\ closeActiveConnectionsTimeout[k] # "armed"]_vars

\* one close() has resolved with its timer cleared, another has rejected
C27_Witness ==
  /\ \E k \in CloseCalls : closePc[k] = "resolved" /\ closeActiveConnectionsTimeout[k] = "cleared"
  /\ \E k \in CloseCalls : closePc[k] = "rejected"

\* C30: once the manager is closing every tracked connection is eventually
\* gone; a firing closeActiveConnectionsTimeout leaves no tracked connection
\* open, whatever its flag; and a close() call whose server was running
\* eventually resolves.
C30_CloseEventuallyResolves ==
  /\ isServerClosing ~> (connections = {})
  /\ \A k \in CloseCalls : (closePc[k] = "waiting") ~> (closePc[k] = "resolved")
  /\ [][\A k \in CloseCalls :
          (closeActiveConnectionsTimeout[k] = "armed" /\ closeActiveConnectionsTimeout'[k] = "fired")
             => \A s \in Sockets : socketSt'[s] # "open"]_vars

\* the timer has fired and destroyed a connection flagged active whose
\* request never finished
C30_Witness ==
  /\ ~secure
  /\ \E k \in CloseCalls : closeActiveConnectionsTimeout[k] = "fired"
  /\ \E s \in Sockets : socketSt[s] = "destroyed" /\ inFlight[s] > 0 /\ ~isIdle[s]

\* C31: the value carried by the most recent 'healthStateChange' event
\* equals the health flag (unhealthy while no such event has been emitted).
C31_ObserversSeeHealthFlag ==
  LET log == events.log
      changes == {i \in 1..Len(log) : log[i].e = "healthStateChange"}
      last == IF changes = {} THEN FALSE
              ELSE log[CHOOSE i \in changes : \A j \in changes : j <= i].v = "true"
  IN  _isHealthy = last

====
